---- MODULE Spec2Model ----
(***************************************************************************)
(* meowpad: the persistent store behind the add / note / remove commands.  *)
(* The store is the set of SQLite tables the commands write through one    *)
(* transaction per command (src/src/main.rs).  Each command is one action: *)
(* it runs the handler on a working copy of the tables and commits the     *)
(* copy only when the handler returned Ok.                                 *)
(***************************************************************************)
EXTENDS Integers, Sequences, FiniteSets, TLC

(* ----------------------------- bounds ---------------------------------- *)
\* Identifiers handed out by get_uuid over a run.
MaxIds == 3
\* Seconds the wall clock may advance over a run.
MaxClock == 1

(* ----------------------------- values ---------------------------------- *)
\* SQL NULL / Rust None for a text column, and for an identifier column.
NULL == "NULL"
NoId == 0

\* Command-line URL strings.  UrlA is accepted by Url::parse but is not in the
\* serialised form of the url crate: its serialisation is UrlASlash.
UrlA == "https://a.example"
UrlASlash == "https://a.example/"
UrlB == "https://b.example/"
Urls == {UrlA, UrlASlash, UrlB}

\* Url::parse(s) followed by Url::as_str(): what a value of type Url holds
\* (struct Link, field url) and what rusqlite writes back for it.  An http(s)
\* URL with an empty path is serialised with the path "/".
UrlAsStr(s) ==
  IF s = UrlA THEN UrlASlash ELSE s

\* A TableId bound as a statement parameter is a 16 byte BLOB; the same id
\* passed through to_string() is bound as TEXT.  SQLite never finds a BLOB
\* equal to a TEXT value.
IdBlob(id) == <<"blob", id>>
IdText(id) == <<"text", id>>

(* ----------------------------- slugify --------------------------------- *)
\* Tag names are sequences of one-character strings.
Lower == {"a", "j"}
Upper == {"A", "J"}
Digit == {"1"}
ToLower(c) ==
  IF c = "A" THEN "a" ELSE IF c = "J" THEN "j" ELSE c
IsAlnum(c) == c \in Lower \cup Upper \cup Digit
IsSpace(c) == c = " "

RECURSIVE TrimStart(_)
TrimStart(s) ==
  IF s # <<>> /\ IsSpace(Head(s)) THEN TrimStart(Tail(s)) ELSE s

RECURSIVE TrimEnd(_)
TrimEnd(s) ==
  IF s # <<>> /\ IsSpace(s[Len(s)]) THEN TrimEnd(SubSeq(s, 1, Len(s) - 1)) ELSE s

\* A closure that writes a hyphen for every separator it reads.
SlugStep_every_separator(st, c) ==
  IF IsAlnum(c) THEN <<Append(st[1], c), FALSE>>
  ELSE IF c = ":" THEN <<Append(st[1], ":"), st[2]>>
  ELSE <<Append(st[1], "-"), TRUE>>

\* The for_each closure of slugify: st = <<slug so far, is_sep>>.
SlugStep(st, c) ==
  IF IsAlnum(c) THEN <<Append(st[1], c), FALSE>>
  ELSE IF c = ":" THEN <<Append(st[1], ":"), st[2]>>
  ELSE IF ~st[2] THEN <<Append(st[1], "-"), TRUE>>
  ELSE st

RECURSIVE SlugFold(_, _)
SlugFold(st, s) ==
  IF s = <<>> THEN st ELSE SlugFold(SlugStep(st, Head(s)), Tail(s))

\* str::split(":"): the pieces between colons, empty pieces included.
RECURSIVE SplitColon(_, _)
SplitColon(s, cur) ==
  IF s = <<>> THEN <<cur>>
  ELSE IF Head(s) = ":" THEN <<cur>> \o SplitColon(Tail(s), <<>>)
  ELSE SplitColon(Tail(s), Append(cur, Head(s)))

\* str::trim_matches('-').
RECURSIVE TrimHyphens(_)
TrimHyphens(s) ==
  IF s # <<>> /\ Head(s) = "-" THEN TrimHyphens(Tail(s))
  ELSE IF s # <<>> /\ s[Len(s)] = "-" THEN TrimHyphens(SubSeq(s, 1, Len(s) - 1))
  ELSE s

RECURSIVE JoinColon(_)
JoinColon(ps) ==
  IF ps = <<>> THEN <<>>
  ELSE IF Len(ps) = 1 THEN ps[1]
  ELSE ps[1] \o <<":">> \o JoinColon(Tail(ps))

\* A slugify that looks for empty pieces before it trims their hyphens.
slugify_checking_untrimmed(tag) ==
  LET lowered == [i \in 1..Len(tag) |-> ToLower(tag[i])]
      trimmed == TrimEnd(TrimStart(lowered))
      slug == SlugFold(<<<<>>, TRUE>>, trimmed)[1]
      pieces == SplitColon(slug, <<>>)
      valid_pieces == [i \in 1..Len(pieces) |-> TrimHyphens(pieces[i])]
  IN IF \E i \in 1..Len(pieces) : pieces[i] = <<>>
     THEN [ok |-> FALSE, slug |-> <<>>]
     ELSE [ok |-> TRUE, slug |-> JoinColon(valid_pieces)]

\* util::slugify: [ok |-> FALSE] is the Err, [ok |-> TRUE, slug |-> ..] the Ok.
slugify(tag) ==
  LET lowered == [i \in 1..Len(tag) |-> ToLower(tag[i])]
      trimmed == TrimEnd(TrimStart(lowered))
      slug == SlugFold(<<<<>>, TRUE>>, trimmed)[1]
      pieces == SplitColon(slug, <<>>)
      valid_pieces == [i \in 1..Len(pieces) |-> TrimHyphens(pieces[i])]
  IN IF \E i \in 1..Len(pieces) : valid_pieces[i] = <<>>
     THEN [ok |-> FALSE, slug |-> <<>>]
     ELSE [ok |-> TRUE, slug |-> JoinColon(valid_pieces)]

(* ----------------------------- the store ------------------------------- *)
\* One database: the tables the migrations create.  link, tag and note have a
\* primary key (the id); link_content (the full-text index), item_tag and
\* related_link are kept in insertion (rowid) order.
EmptyDb ==
  [link |-> {}, link_content |-> <<>>, item_tag |-> <<>>,
   tag |-> {}, note |-> {}, related_link |-> <<>>]

\* Result of a store call made inside a transaction: ok is FALSE when the call
\* returned Err; db and nid are the tables and the identifier source after it;
\* ret is the value of the Ok.
Ok(db, nid, ret) == [ok |-> TRUE, db |-> db, nid |-> nid, ret |-> ret]
Err(db, nid) == [ok |-> FALSE, db |-> db, nid |-> nid, ret |-> NoId]

\* Rows of a rowid-ordered table that satisfy / do not satisfy a test.
RowsOf(table) == {table[i] : i \in 1..Len(table)}

\* Schema: link.url is UNIQUE.  TRUE when a row other than `except` holds url.
unique_link_url(db, url, except) ==
  \E l \in db.link : l.url = url /\ l.id # except

\* Schema: tag.slug is UNIQUE.
unique_tag_slug(db, slug) ==
  \E t \in db.tag : t.slug = slug

\* Schema: item_tag holds one row per (link, tag) and per (note, tag).
unique_item_tag(db, link_id, note_id, tag_id) ==
  \E r \in RowsOf(db.item_tag) :
    r.link_id = link_id /\ r.note_id = note_id /\ r.tag_id = tag_id

\* Schema: deleting a note row cascades to its tag associations.
cascade_note(db, note_ids) ==
  [db EXCEPT !.item_tag = SelectSeq(@, LAMBDA r : r.note_id \notin note_ids)]

\* Schema: deleting a link row cascades to its child rows: its tag
\* associations, its content, the relations it is the source of, and the notes
\* attached to it (with their own associations).
cascade_link(db, link_id) ==
  LET notes == {n.id : n \in {m \in db.note : m.link_id = link_id}}
      db1 == [db EXCEPT
                !.item_tag = SelectSeq(@, LAMBDA r : r.link_id # link_id),
                !.link_content = SelectSeq(@, LAMBDA r : r.link_id # IdBlob(link_id)),
                !.related_link = SelectSeq(@, LAMBDA r : r.primary_link_id # link_id),
                !.note = {n \in @ : n.id \notin notes}]
  IN cascade_note(db1, notes)

\* db::get_uuid: a fresh identifier; nid counts the identifiers stored so far.
get_uuid(nid) == nid + 1

\* Milliseconds in a second: Uuid::new_v7 stores the instant in milliseconds.
MillisPerSecond == 1000

\* An identifier whose random bits come before its instant.
new_v7_random_first(secs, rand) == <<rand, secs * MillisPerSecond>>

\* db::get_uuid as the bytes it returns: Uuid::new_v7 of a Timestamp built
\* from now.as_second() and 0 nanoseconds.  The identifier starts with the
\* instant in milliseconds; the bits after it are random.
new_v7(secs, rand) == <<secs * MillisPerSecond, rand>>

\* The order of two identifiers: byte by byte, first field first.
UuidLess(a, b) == a[1] < b[1] \/ (a[1] = b[1] /\ a[2] < b[2])

\* db::insert_content.
insert_content(db, link_id, content) ==
  [db EXCEPT !.link_content =
     Append(@, [link_id |-> IdBlob(link_id), content |-> content])]

\* db::delete_content.
delete_content(db, link_id) ==
  [db EXCEPT !.link_content = SelectSeq(@, LAMBDA r : r.link_id # IdBlob(link_id))]

\* insert_link on a link table whose url column is not UNIQUE.
insert_link_any_url(db, nid, link, ignore_conflict) ==
  LET id == get_uuid(nid)
      row == [id |-> id, url |-> link.url, title |-> link.title,
              description |-> link.description, is_primary |-> link.is_primary,
              created_at |-> link.timestamp, modified_at |-> link.timestamp]
      db1 == [db EXCEPT !.link = @ \cup {row}]
  IN IF link.content # NULL
     THEN Ok(insert_content(db1, id, link.content), id, id)
     ELSE Ok(db1, id, id)

\* insert_link whose statement always carries the ON CONFLICT clause.
insert_link_always_merge(db, nid, link, ignore_conflict) ==
  LET id == get_uuid(nid)
      row == [id |-> id, url |-> link.url, title |-> link.title,
              description |-> link.description, is_primary |-> link.is_primary,
              created_at |-> link.timestamp, modified_at |-> link.timestamp]
      taken == unique_link_url(db, link.url, NoId)
      row_id == IF taken THEN (CHOOSE l \in db.link : l.url = link.url).id ELSE id
      db1 == IF taken THEN db ELSE [db EXCEPT !.link = @ \cup {row}]
      nid1 == IF taken THEN nid ELSE id
  IN IF link.content # NULL
     THEN Ok(insert_content(db1, row_id, link.content), nid1, row_id)
     ELSE Ok(db1, nid1, row_id)

\* insert_link whose ON CONFLICT clause sets every column of the statement
\* but the id.
insert_link_overwriting(db, nid, link, ignore_conflict) ==
  LET id == get_uuid(nid)
      row == [id |-> id, url |-> link.url, title |-> link.title,
              description |-> link.description, is_primary |-> link.is_primary,
              created_at |-> link.timestamp, modified_at |-> link.timestamp]
      taken == unique_link_url(db, link.url, NoId)
      row_id == IF taken THEN (CHOOSE l \in db.link : l.url = link.url).id ELSE id
      db1 == IF taken
             THEN [db EXCEPT !.link = {IF l.id = row_id THEN [row EXCEPT !.id = row_id]
                                       ELSE l : l \in @}]
             ELSE [db EXCEPT !.link = @ \cup {row}]
      nid1 == IF taken THEN nid ELSE id
  IN IF taken /\ ~ignore_conflict THEN Err(db, nid)
     ELSE IF link.content # NULL
          THEN Ok(insert_content(db1, row_id, link.content), nid1, row_id)
          ELSE Ok(db1, nid1, row_id)

\* db::insert_link.  link is a LinkInsert; without ignore_conflict the INSERT
\* fails on a taken url, with it the statement returns the id of the row that
\* holds the url (SET url = :url writes the value the row already has).
insert_link(db, nid, link, ignore_conflict) ==
  LET id == get_uuid(nid)
      row == [id |-> id, url |-> link.url, title |-> link.title,
              description |-> link.description, is_primary |-> link.is_primary,
              created_at |-> link.timestamp, modified_at |-> link.timestamp]
      taken == unique_link_url(db, link.url, NoId)
      row_id == IF taken THEN (CHOOSE l \in db.link : l.url = link.url).id ELSE id
      db1 == IF taken THEN db ELSE [db EXCEPT !.link = @ \cup {row}]
      nid1 == IF taken THEN nid ELSE id
  IN IF taken /\ ~ignore_conflict THEN Err(db, nid)
     ELSE IF link.content # NULL
          THEN Ok(insert_content(db1, row_id, link.content), nid1, row_id)
          ELSE Ok(db1, nid1, row_id)

\* db::get_link: the struct Link of the first matching row, or NoLink.
\* by is "term" (url = ?) or "id"; is_primary is one of the IsPrimary values.
NoLink == [id |-> NoId]
get_link(db, by, key, is_primary) ==
  LET rows == {l \in db.link :
                 /\ CASE is_primary = "PrimaryOnly" -> l.is_primary
                      [] is_primary = "SecondaryOnly" -> ~l.is_primary
                      [] OTHER -> TRUE
                 /\ IF by = "term" THEN l.url = key ELSE l.id = key}
  IN IF rows = {} THEN NoLink
     ELSE LET row == CHOOSE l \in rows : TRUE
              found == SelectSeq(db.link_content, LAMBDA r : r.link_id = IdText(row.id))
          IN [id |-> row.id, url |-> UrlAsStr(row.url), title |-> row.title,
              description |-> row.description,
              content |-> IF found = <<>> THEN NULL ELSE found[1].content,
              is_primary |-> row.is_primary, created_at |-> row.created_at,
              modified_at |-> row.modified_at]

\* db::update_link: the full-row UPDATE by id; now is super::now() at the call.
update_link(db, nid, link, now) ==
  IF unique_link_url(db, link.url, link.id) THEN Err(db, nid)
  ELSE Ok([db EXCEPT !.link =
             {IF l.id = link.id
              THEN [l EXCEPT !.url = link.url, !.title = link.title,
                             !.description = link.description,
                             !.is_primary = link.is_primary, !.modified_at = now]
              ELSE l : l \in @}],
          nid, link.id)

\* delete_link on tables without the cascades.
delete_link_row_only(db, link_id) ==
  IF \E l \in db.link : l.id = link_id /\ l.is_primary
  THEN [db EXCEPT !.link = {l \in @ : l.id # link_id}]
  ELSE db

\* delete_link whose DELETE has no `AND is_primary = true`.
delete_link_any_row(db, link_id) ==
  cascade_link([db EXCEPT !.link = {l \in @ : l.id # link_id}], link_id)

\* db::delete_link: DELETE ... WHERE id = ? AND is_primary = true.
delete_link(db, link_id) ==
  IF \E l \in db.link : l.id = link_id /\ l.is_primary
  THEN cascade_link([db EXCEPT !.link = {l \in @ : l.id # link_id}], link_id)
  ELSE db

\* db::get_inverse_related_links: the sources of the edges that end at link_id.
get_inverse_related_links(db, link_id) ==
  LET rows == SelectSeq(db.related_link, LAMBDA r : r.related_link_id = link_id)
  IN [i \in 1..Len(rows) |-> rows[i].primary_link_id]

\* db::relate_links.
relate_links(db, primary_id, secondary_id, relationship) ==
  [db EXCEPT !.related_link =
     Append(@, [primary_link_id |-> primary_id, related_link_id |-> secondary_id,
                relationship |-> relationship])]

\* db::related_links: link JOIN related_link ON link.id =
\* related_link.primary_link_id WHERE id = ?: for every edge that starts at
\* primary_id, the url of the joined link row and the edge's relationship.
related_links(db, primary_id) ==
  LET edges == SelectSeq(db.related_link, LAMBDA r : r.primary_link_id = primary_id)
  IN [i \in 1..Len(edges) |->
        <<(CHOOSE l \in db.link : l.id = edges[i].primary_link_id).url,
          edges[i].relationship>>]

\* db::delete_related_links with Some(primary_link_id) and / or Some(related).
delete_related_links(db, primary_link_id, related_link_id) ==
  [db EXCEPT !.related_link =
     SelectSeq(@, LAMBDA r :
       ~(/\ primary_link_id # NoId => r.primary_link_id = primary_link_id
         /\ related_link_id # NoId => r.related_link_id = related_link_id))]

\* db::tag_link and db::tag_note: INSERT ... ON CONFLICT DO NOTHING.
tag_link(db, link_id, tag_id) ==
  IF unique_item_tag(db, link_id, NoId, tag_id) THEN db
  ELSE [db EXCEPT !.item_tag =
          Append(@, [link_id |-> link_id, note_id |-> NoId, tag_id |-> tag_id])]

\* tag_note on an item_tag table without the uniqueness of (note, tag).
tag_note_any_pair(db, note_id, tag_id) ==
  [db EXCEPT !.item_tag =
     Append(@, [link_id |-> NoId, note_id |-> note_id, tag_id |-> tag_id])]


tag_note(db, note_id, tag_id) ==
  IF unique_item_tag(db, NoId, note_id, tag_id) THEN db
  ELSE [db EXCEPT !.item_tag =
          Append(@, [link_id |-> NoId, note_id |-> note_id, tag_id |-> tag_id])]

\* db::delete_item_tags: DELETE ... WHERE note_id = ?1 OR link_id = ?2.
delete_item_tags(db, item_id) ==
  [db EXCEPT !.item_tag =
     SelectSeq(@, LAMBDA r : ~(r.note_id = item_id \/ r.link_id = item_id))]

\* require_tag on a tag table whose slug column is not UNIQUE.
require_tag_any_slug(db, nid, name, slug, timestamp) ==
  LET id == get_uuid(nid)
  IN Ok([db EXCEPT !.tag = @ \cup
           {[id |-> id, slug |-> slug, name |-> name,
             created_at |-> timestamp, modified_at |-> timestamp]}],
        id, id)

\* db::require_tag: INSERT ... ON CONFLICT DO UPDATE SET slug = :slug
\* RETURNING id.  On a taken slug the row keeps every column it had.
require_tag(db, nid, name, slug, timestamp) ==
  IF unique_tag_slug(db, slug)
  THEN Ok(db, nid, (CHOOSE t \in db.tag : t.slug = slug).id)
  ELSE LET id == get_uuid(nid)
       IN Ok([db EXCEPT !.tag = @ \cup
                {[id |-> id, slug |-> slug, name |-> name,
                  created_at |-> timestamp, modified_at |-> timestamp]}],
             id, id)

\* A get_tag_id that drops the `?` after slugify.
get_tag_id_unchecked(db, nid, tag_name, now) ==
  require_tag(db, nid, tag_name, slugify(tag_name).slug, now)

\* get_tag_id: slugify, then require_tag.
get_tag_id(db, nid, tag_name, now) ==
  LET s == slugify(tag_name)
  IN IF ~s.ok THEN Err(db, nid) ELSE require_tag(db, nid, tag_name, s.slug, now)

\* upsert_note on a note table whose title column is not UNIQUE.
upsert_note_any_title(db, nid, note, title, link_id, timestamp) ==
  LET id == get_uuid(nid)
  IN Ok([db EXCEPT !.note = @ \cup
           {[id |-> id, content |-> note, title |-> title, link_id |-> link_id,
             created_at |-> timestamp, modified_at |-> timestamp]}],
        id, id)

\* An upsert_note whose DO UPDATE also sets link_id = :link_id.
upsert_note_reattaching(db, nid, note, title, link_id, timestamp) ==
  IF \E n \in db.note : n.title = title
  THEN LET old == CHOOSE n \in db.note : n.title = title
       IN Ok([db EXCEPT !.note =
                {IF n.id = old.id
                 THEN [n EXCEPT !.content = note, !.modified_at = timestamp,
                                !.link_id = link_id]
                 ELSE n : n \in @}],
             nid, old.id)
  ELSE LET id == get_uuid(nid)
       IN Ok([db EXCEPT !.note = @ \cup
                {[id |-> id, content |-> note, title |-> title, link_id |-> link_id,
                  created_at |-> timestamp, modified_at |-> timestamp]}],
             id, id)

\* db::upsert_note: INSERT ... ON CONFLICT(title) DO UPDATE SET content,
\* modified_at ... RETURNING id.
upsert_note(db, nid, note, title, link_id, timestamp) ==
  IF \E n \in db.note : n.title = title
  THEN LET old == CHOOSE n \in db.note : n.title = title
       IN Ok([db EXCEPT !.note =
                {IF n.id = old.id
                 THEN [n EXCEPT !.content = note, !.modified_at = timestamp]
                 ELSE n : n \in @}],
             nid, old.id)
  ELSE LET id == get_uuid(nid)
       IN Ok([db EXCEPT !.note = @ \cup
                {[id |-> id, content |-> note, title |-> title, link_id |-> link_id,
                  created_at |-> timestamp, modified_at |-> timestamp]}],
             id, id)

\* db::get_note_by_title (get_note with the title filter only).
NoNote == [id |-> NoId]
get_note_by_title(db, title) ==
  IF \E n \in db.note : n.title = title
  THEN CHOOSE n \in db.note : n.title = title
  ELSE NoNote

\* db::delete_note.
delete_note(db, note_id) ==
  cascade_note([db EXCEPT !.note = {n \in @ : n.id # note_id}], {note_id})

(* ----------------------------- commands -------------------------------- *)
\* A parser that takes every command line for a web URL.
UrlParse_lenient(s) == [ok |-> TRUE, scheme |-> "https"]

\* Url::parse on the command line's link, and the scheme of the parsed URL.
UrlParse(s) ==
  CASE s \in Urls -> [ok |-> TRUE, scheme |-> "https"]
    [] s = "ftp://a.example/" -> [ok |-> TRUE, scheme |-> "ftp"]
    [] OTHER -> [ok |-> FALSE, scheme |-> NULL]

\* add_cmd, lines 382-387: the link is refused before anything else is done.
url_refused(args) ==
  \/ ~UrlParse(args.link).ok
  \/ (UrlParse(args.link).scheme # "https" /\ UrlParse(args.link).scheme # "http")

\* readability(): the fetch failed, or the Article it returned.
FetchFailed == [title |-> "", excerpt |-> NULL, text_content |-> NULL]

\* One turn of the loop `for tag_name in &args.tag { get_tag_id; tag_link /
\* tag_note }` once get_tag_id has returned r.  kind is "link" or "note".  The
\* first Err ends the loop; the Ok carries item_id.
RECURSIVE tag_items(_, _, _, _, _, _)
tag_item(r, kind, item_id, rest, now) ==
  IF ~r.ok THEN r
  ELSE tag_items(IF kind = "link" THEN tag_link(r.db, item_id, r.ret)
                                  ELSE tag_note(r.db, item_id, r.ret),
                 r.nid, kind, item_id, rest, now)

tag_items(db, nid, kind, item_id, tags, now) ==
  IF tags = <<>> THEN Ok(db, nid, item_id)
  ELSE tag_item(get_tag_id(db, nid, Head(tags), now), kind, item_id, Tail(tags), now)

\* A promotion that also drops the edges that end at the link.
promote_link_dropping_edges(db, nid, secondary_link, link_insert_args, u) ==
  IF ~u.ok THEN u
  ELSE Ok(delete_related_links(
            insert_content(u.db, secondary_link.id, link_insert_args.content),
            NoId, secondary_link.id),
          u.nid, secondary_link.id)

\* add_cmd, lines 427-437: the promotion of the secondary link of that url,
\* when there is one.  now2 is super::now() inside update_link.
promote_link(db, nid, secondary_link, link_insert_args, u) ==
  IF ~u.ok THEN u
  ELSE Ok(insert_content(u.db, secondary_link.id, link_insert_args.content),
          u.nid, secondary_link.id)

promote(db, nid, secondary_link, link_insert_args, now2) ==
  IF secondary_link = NoLink THEN Err(db, nid)
  ELSE promote_link(db, nid, secondary_link, link_insert_args,
                    update_link(db, nid,
                                [secondary_link EXCEPT
                                   !.title = link_insert_args.title,
                                   !.description = link_insert_args.description,
                                   !.is_primary = TRUE],
                                now2))

\* add_link looking the url up among all links, primary ones included.
add_link_either(db, nid, link_insert_args, now2, link_result) ==
  IF link_result.ok THEN link_result
  ELSE promote(db, nid,
               get_link(db, "term", link_insert_args.url, "Either"),
               link_insert_args, now2)

\* add_cmd, lines 415-438: the strict insert and, when it fails, the promotion.
add_link(db, nid, link_insert_args, now2, link_result) ==
  IF link_result.ok THEN link_result
  ELSE promote(db, nid,
               get_link(db, "term", link_insert_args.url, "SecondaryOnly"),
               link_insert_args, now2)

\* add_cmd, lines 440-443: the tags of the link l.ret.
add_tags(l, args, env) ==
  IF ~l.ok THEN l
  ELSE tag_items(l.db, l.nid, "link", l.ret, args.tag, env.now)

\* add_cmd, lines 457-461: the note n.ret is tagged; the Ok carries link_id.
note_tagged(tagged, link_id) ==
  IF ~tagged.ok THEN tagged ELSE Ok(tagged.db, tagged.nid, link_id)

note_tags_of(t, args, env, n) ==
  IF ~n.ok THEN n
  ELSE note_tagged(tag_items(n.db, n.nid, "note", n.ret, args.tag, env.now), t.ret)

\* add_cmd, lines 448-462: the note of the link t.ret.  A note's content is
\* the sequence of its lines.
add_note(t, args, env) ==
  IF ~t.ok THEN t
  ELSE IF args.message = NULL /\ ~args.note THEN t
  ELSE note_tags_of(t, args, env,
         upsert_note(t.db, t.nid,
                     IF args.message # NULL THEN <<args.message>> ELSE env.edited,
                     args.link, t.ret, env.now))

\* add_cmd, lines 464-477: the related link, inserted as a secondary link or
\* found by its url, and the edge to it.  relate_fails is the storage engine
\* failing the INSERT of relate_links.
relate(r, link_id, args, relate_fails) ==
  IF ~r.ok THEN r
  ELSE IF relate_fails THEN Err(r.db, r.nid)
  ELSE Ok(relate_links(r.db, link_id, r.ret, args.relation), r.nid, link_id)

add_related(nt, args, env) ==
  IF ~nt.ok THEN nt
  ELSE IF args.related_link = NULL THEN nt
  ELSE relate(insert_link(nt.db, nt.nid,
                          [url |-> args.related_link, title |-> NULL,
                           description |-> NULL, content |-> NULL,
                           is_primary |-> FALSE, timestamp |-> env.now],
                          TRUE),
              nt.ret, args, env.relate_fails)

\* str::trim on the extracted text of the pages of this model.
trim(s) == IF s = " text " THEN "text" ELSE s

\* add_cmd, lines 392-413: the LinkInsert of the command line and the page.
LinkInsertArgs(args, env) ==
  [url |-> args.link,
   title |-> IF args.title # NULL THEN args.title
             ELSE IF env.page.title = "" THEN NULL ELSE env.page.title,
   description |-> IF args.description # NULL THEN args.description
                   ELSE env.page.excerpt,
   content |-> trim(env.page.text_content),
   is_primary |-> TRUE, timestamp |-> env.now]

\* add_cmd.  env is what the handler reads from outside: the fetched page, the
\* clock at entry (now) and inside update_link (now2), the editor's text.
add_cmd(db, nid, args, env) ==
  IF ~UrlParse(args.link).ok
     \/ (UrlParse(args.link).scheme # "https" /\ UrlParse(args.link).scheme # "http")
  THEN Err(db, nid)
  ELSE IF env.page = FetchFailed THEN Err(db, nid)
  ELSE add_related(
         add_note(
           add_tags(
             add_link(db, nid, LinkInsertArgs(args, env), env.now2,
                      insert_link(db, nid, LinkInsertArgs(args, env), FALSE)),
             args, env),
           args, env),
         args, env)

\* A demotion that leaves the tag associations of the link.
demote_keeping_tags(link, u) ==
  IF ~u.ok THEN u
  ELSE Ok(delete_content(delete_related_links(u.db, link.id, NoId), link.id),
          u.nid, link.id)

\* A demotion that leaves the content row of the link.
demote_keeping_content(link, u) ==
  IF ~u.ok THEN u
  ELSE Ok(delete_related_links(delete_item_tags(u.db, link.id), link.id, NoId),
          u.nid, link.id)

\* remove_cmd, lines 616-622: the demotion of link.
demote(link, u) ==
  IF ~u.ok THEN u
  ELSE Ok(delete_content(
            delete_related_links(delete_item_tags(u.db, link.id), link.id, NoId),
            link.id),
          u.nid, link.id)

\* remove_link that deletes the row whatever edges end at it.
remove_link_always_delete(db, nid, link, now2) ==
  IF link = NoLink THEN Ok(db, nid, NoId)
  ELSE Ok(delete_link(db, link.id), nid, link.id)

\* remove_cmd, lines 611-624: the primary link of that url is deleted, or
\* demoted when some edge ends at it.
remove_link(db, nid, link, now2) ==
  IF link = NoLink THEN Ok(db, nid, NoId)
  ELSE IF get_inverse_related_links(db, link.id) = <<>>
       THEN Ok(delete_link(db, link.id), nid, link.id)
       ELSE demote(link, update_link(db, nid, [link EXCEPT !.is_primary = FALSE], now2))

\* remove_cmd, lines 625-628: the note of that title.
remove_note(l, note) ==
  IF ~l.ok THEN l
  ELSE IF note = NoNote THEN l
  ELSE Ok(delete_note(l.db, note.id), l.nid, l.ret)

remove_note_of(l, item) ==
  IF ~l.ok THEN l ELSE remove_note(l, get_note_by_title(l.db, item))

\* remove_cmd.  The Ok carries the id of the link removed, or NoId.
remove_cmd(db, nid, item, now2) ==
  remove_note_of(
    remove_link(db, nid, get_link(db, "term", item, "PrimaryOnly"), now2), item)

\* Result of db::get_links: Err, or the Vec of the rows read.
ListOk(links) == [ok |-> TRUE, links |-> links]
ListErr == [ok |-> FALSE, links |-> <<>>]

\* db::get_links, the WHERE clause: is_primary IS TRUE and, with tags, id in
\* (SELECT link_id FROM item_tag WHERE tag_id in (SELECT id FROM tag WHERE
\* slug IN (tags))).
listed_rows(db, tags) ==
  {l \in db.link :
     /\ l.is_primary
     /\ tags # <<>> =>
          \E r \in RowsOf(db.item_tag) : \E t \in db.tag :
            /\ r.link_id = l.id
            /\ r.tag_id = t.id
            /\ \E i \in 1..Len(tags) : tags[i] = t.slug}

\* The orders in which a statement may return rows under ORDER BY created_at
\* DESC (newest_first) or ASC: rows of one second come in any order.  The
\* column holds the strings now() made, of one width, which order as the
\* instants do.
row_orders(rows, newest_first) ==
  {s \in [1..Cardinality(rows) -> rows] :
     /\ \A i \in DOMAIN s : \A j \in DOMAIN s : s[i] = s[j] => i = j
     /\ \A i \in DOMAIN s : \A j \in DOMAIN s :
          i < j => IF newest_first THEN s[i].created_at >= s[j].created_at
                                   ELSE s[i].created_at <= s[j].created_at}

\* db::get_links, lines 744-757: the row as a Link.  title and description
\* are read as String, which fails on NULL.
link_of_row(row) ==
  [id |-> row.id, url |-> UrlAsStr(row.url), title |-> row.title,
   description |-> row.description, content |-> NULL,
   is_primary |-> row.is_primary, created_at |-> row.created_at,
   modified_at |-> row.modified_at]

links_read(rows, orders) ==
  IF \E l \in rows : l.title = NULL \/ l.description = NULL THEN {ListErr}
  ELSE {ListOk([i \in DOMAIN s |-> link_of_row(s[i])]) : s \in orders}

\* get_links that reads the rows oldest first.
get_links_oldest_first(db, tags) ==
  links_read(listed_rows(db, tags), row_orders(listed_rows(db, tags), FALSE))

\* db::get_links with search_term None, as list_cmd calls it: the results the
\* call may have.
get_links(db, tags) ==
  links_read(listed_rows(db, tags), row_orders(listed_rows(db, tags), TRUE))

\* list_cmd: the tags of the command line are slugified, then get_links.
list_cmd(db, args) ==
  IF \E i \in 1..Len(args.tag) : ~slugify(args.tag[i]).ok THEN {ListErr}
  ELSE get_links(db, [i \in 1..Len(args.tag) |-> slugify(args.tag[i]).slug])

\* note_cmd, lines 598-602: the note n.ret is tagged.
note_upserted(n, args, env) ==
  IF ~n.ok THEN n
  ELSE tag_items(n.db, n.nid, "note", n.ret, args.tag, env.now)

\* note_cmd, lines 583-604, with the text of the note.
note_text(db, nid, note, title, args, env) ==
  IF note = <<>> THEN Ok(db, nid, NoId)
  ELSE note_upserted(upsert_note(db, nid, note, title, NoId, env.now), args, env)

\* note_cmd, lines 579-594, with the content of the existing note, if any.
note_content(db, nid, content, title, args, env) ==
  note_text(db, nid,
            IF args.message # NULL
            THEN (IF content = <<>> THEN <<args.message>>
                  ELSE Append(content, args.message))
            ELSE env.edited,
            title, args, env)

note_titled(db, nid, existing_note, title, args, env) ==
  note_content(db, nid,
               IF existing_note = NoNote THEN <<>> ELSE existing_note.content,
               title, args, env)

\* note_cmd.
note_cmd(db, nid, args, env) ==
  note_titled(db, nid,
              get_note_by_title(db, IF args.title # NULL THEN args.title
                                    ELSE ToString(env.now)),
              IF args.title # NULL THEN args.title ELSE ToString(env.now),
              args, env)

(* ----------------------------- inputs ---------------------------------- *)
TagJazz == <<"J">>
TagJazzLower == <<"j">>
TagBad == <<"?">>

\* The fetched page: with a title and an excerpt, or with neither.
PageFull == [title |-> "Page", excerpt |-> "Ex", text_content |-> " text "]
PagePlain == [title |-> "", excerpt |-> NULL, text_content |-> "text"]
NoMeta == <<NULL, NULL>>

\* An add command line and what the handler meets outside the store: the page,
\* the seconds d the fetch takes, whether the engine fails the edge's INSERT.
AddIn(u, tg, td, m, rl, page, d, rf) ==
  [args |-> [link |-> u, tag |-> tg, title |-> td[1], description |-> td[2],
             note |-> FALSE, message |-> m,
             related_link |-> rl, relation |-> IF rl = NULL THEN NULL ELSE "via"],
   page |-> page, d |-> d, edited |-> <<>>, relate_fails |-> rf]

AddInputs ==
  \* every link with every related link, nothing else on the command line
  {AddIn(u, <<>>, NoMeta, NULL, rl, PageFull, 0, FALSE) :
     u \in Urls, rl \in {NULL, UrlA, UrlB}}
  \* a tag, on a page without a title
  \cup {AddIn(u, <<TagJazz>>, NoMeta, NULL, NULL, PagePlain, 0, FALSE) : u \in Urls}
  \* a tag, a title and a description, and a related link
  \cup {AddIn(UrlB, <<TagJazz>>, <<"Mine", "Desc">>, NULL, UrlA, PageFull, 0, FALSE)}
  \* a message, with and without a tag
  \cup {AddIn(UrlA, tg, NoMeta, "m", NULL, PageFull, 0, FALSE) :
          tg \in {<<>>, <<TagJazzLower>>}}
  \* failures: a scheme that is not http(s), the fetch, a tag after a good
  \* one, the INSERT of the edge
  \cup {AddIn("ftp://a.example/", <<>>, NoMeta, NULL, NULL, PageFull, 0, FALSE),
        AddIn(UrlA, <<>>, NoMeta, NULL, NULL, FetchFailed, 0, FALSE),
        AddIn(UrlA, <<TagJazz, TagBad>>, NoMeta, NULL, NULL, PageFull, 0, FALSE),
        AddIn(UrlA, <<>>, NoMeta, NULL, UrlB, PageFull, 0, TRUE)}

\* Adds whose fetch may take a second.
TimedAddInputs ==
  {AddIn(u, <<>>, NoMeta, NULL, rl, PageFull, d, FALSE) :
     u \in {UrlA, UrlB}, rl \in {NULL, UrlA}, d \in {0, 1}}
  \cup {AddIn(u, <<>>, NoMeta, NULL, NULL, PagePlain, 0, FALSE) : u \in {UrlA, UrlB}}

\* A note command line and the text the editor returns.
NoteIn(tg, t, m, edited) ==
  [args |-> [tag |-> tg, title |-> t, message |-> m], edited |-> edited]

NoteInputs ==
  {NoteIn(tg, UrlA, "m", <<>>) : tg \in {<<>>, <<TagJazzLower>>, <<TagBad>>}}
  \cup {NoteIn(<<>>, UrlA, NULL, ed) : ed \in {<<>>, <<"e">>}}
  \cup {NoteIn(<<TagJazzLower>>, UrlA, NULL, <<"e">>)}

\* Notes without a title, which are titled with the time of the command.
TimedNoteInputs == {NoteIn(<<>>, NULL, "m", <<>>)}

\* Lines a note may grow to.
MaxNoteLines == 1

\* The characters of a tag: a letter of each case, a space, a hyphen, the
\* namespace separator and a punctuation mark.
TagChars == {"a", "J", " ", "-", ":", "?"}

\* Characters a tag may have.
MaxTagLen == 4

\* Every tag of at most MaxTagLen characters.
Tags == UNION {[1..k -> TagChars] : k \in 0..MaxTagLen}

\* No slugify has run.
NoSlug == [ok |-> FALSE, slug |-> <<"none">>]

\* The random bits of an identifier are drawn from 0..MaxRand.
MaxRand == 3

\* Links that are not web URLs: one that does not parse, one of another scheme.
BadLinks == {"not a url", "ftp://a.example/"}

\* The add command lines that are followed step by step.
FlowInputs ==
  {AddIn(UrlA, <<>>, NoMeta, NULL, NULL, PageFull, 0, FALSE),
   AddIn(UrlB, <<>>, NoMeta, NULL, UrlA, PageFull, 0, FALSE),
   AddIn(UrlA, <<>>, NoMeta, NULL, NULL, FetchFailed, 0, FALSE),
   AddIn(UrlA, <<>>, NoMeta, "x", NULL, PageFull, 0, FALSE)}
  \cup {AddIn(u, <<>>, NoMeta, NULL, NULL, PageFull, 0, FALSE) : u \in BadLinks}

\* The note command lines between them: a note titled with a link's text.
FlowNoteInputs == {NoteIn(<<>>, UrlA, "m", <<>>)}

\* No command line has been read.
NoInput == AddIn(NULL, <<>>, NoMeta, NULL, NULL, FetchFailed, 0, FALSE)

(* ----------------------------- state ----------------------------------- *)
VARIABLES
  db,      \* the committed tables
  nextId,  \* identifiers stored so far
  clock,   \* the wall clock, in seconds
  last,    \* what the last command did
  tag,     \* the tag given to slugify
  slug,    \* what slugify returned
  uuids,   \* the identifiers get_uuid returned, each with its second
  pc,      \* where the running add command is
  tx,      \* whether its transaction is open
  cur      \* its command line

vars == <<db, nextId, clock, last, tag, slug, uuids, pc, tx, cur>>

\* What a command that runs in one step leaves alone.
aside == <<tag, slug, uuids, pc, tx, cur>>

Init ==
  /\ db = EmptyDb
  /\ nextId = 0
  /\ clock = 0
  /\ last = "none"
  /\ tag = <<>>
  /\ slug = NoSlug
  /\ uuids = {}
  /\ pc = "idle"
  /\ tx = "none"
  /\ cur = NoInput

\* A main that commits the transaction of a failed handler too.
commit_always(before, r) == r.db

\* main: `cmd(&tx, ..)?; tx.commit()?`.  An Err leaves main before the commit
\* and the dropped transaction rolls back.
commit(before, r) == IF r.ok THEN r.db ELSE before

\* The handlers run on the committed tables.
AddResult(in) ==
  add_cmd(db, nextId, in.args,
          [page |-> in.page, now |-> clock, now2 |-> clock + in.d,
           edited |-> in.edited, relate_fails |-> in.relate_fails])

RemoveResult(item) == remove_cmd(db, nextId, item, clock)

NoteResult(in) ==
  note_cmd(db, nextId, in.args, [now |-> clock, edited |-> in.edited])

\* The command can run within the bounds of the model.
WithinIds(r) == r.nid <= MaxIds

WithinNotes(r) == \A n \in r.db.note : Len(n.content) <= MaxNoteLines

AddEnabled(in) ==
  /\ clock + in.d <= MaxClock
  /\ WithinIds(AddResult(in))

NoteEnabled(in) ==
  /\ WithinIds(NoteResult(in))
  /\ WithinNotes(NoteResult(in))

\* What a command that returned r did, for the record in last.
DidAdd(in, r) ==
  IF r.ok
  THEN (IF \E l \in db.link : l.url = in.args.link THEN "promoted" ELSE "inserted")
  ELSE IF r.db # db THEN "add failed after writes"
  ELSE IF in.page = FetchFailed \/ in.args.link \notin Urls THEN "add failed"
  ELSE IF \E l \in db.link : l.url = in.args.link /\ l.is_primary
       THEN "duplicate refused"
       ELSE "promotion refused"

DidRemove(r) ==
  IF ~r.ok THEN "remove failed"
  ELSE IF r.ret = NoId THEN "nothing removed"
  ELSE IF \E l \in r.db.link : l.id = r.ret THEN "demoted" ELSE "deleted"

DidNote(r) ==
  IF ~r.ok THEN (IF r.db # db THEN "note failed after writes" ELSE "note failed")
  ELSE "noted"

\* main, lines 226-249: the handler returned r; the transaction is committed
\* or dropped.
Finish(r, did) ==
  /\ db' = commit(db, r)
  /\ nextId' = IF r.ok THEN r.nid ELSE nextId
  /\ last' = did

\* Commands::Add, for the command lines of a set of inputs.
AddWith(inputs) ==
  \E in \in inputs :
    /\ AddEnabled(in)
    /\ Finish(AddResult(in), DidAdd(in, AddResult(in)))
    /\ clock' = clock + in.d
    /\ UNCHANGED aside

Add == AddWith(AddInputs)

AddTimed == AddWith(TimedAddInputs)

\* Commands::Remove.
Remove ==
  \E item \in Urls :
    /\ Finish(RemoveResult(item), DidRemove(RemoveResult(item)))
    /\ UNCHANGED <<clock, aside>>

\* Commands::Note.
NoteWith(inputs) ==
  \E in \in inputs :
    /\ NoteEnabled(in)
    /\ Finish(NoteResult(in), DidNote(NoteResult(in)))
    /\ UNCHANGED <<clock, aside>>

Note == NoteWith(NoteInputs)

NoteTimed == NoteWith(TimedNoteInputs)

\* A second passes between two commands.
Tick ==
  /\ clock < MaxClock
  /\ clock' = clock + 1
  /\ UNCHANGED <<db, nextId, last, aside>>

\* The three writing commands on a clock that stands still.
Next == Add \/ Remove \/ Note

Spec == Init /\ [][Next]_vars

\* Adding and removing links, and taking untitled notes, while time passes.
NextTimed == AddTimed \/ Remove \/ NoteTimed \/ Tick

SpecTimed == Init /\ [][NextTimed]_vars

\* util::slugify on the tag.
Slugify ==
  /\ slug' = slugify(tag)
  /\ last' = "slugified"
  /\ UNCHANGED <<db, nextId, clock, tag, uuids, pc, tx, cur>>

\* util::slugify on the slug it returned.
Reslugify ==
  /\ last = "slugified"
  /\ slug.ok
  /\ tag' = slug.slug
  /\ slug' = slugify(slug.slug)
  /\ last' = "reslugified"
  /\ UNCHANGED <<db, nextId, clock, uuids, pc, tx, cur>>

\* get_tag_id on the tag, as the tag loops of add_cmd and note_cmd call it.
GetTagId ==
  /\ WithinIds(get_tag_id(db, nextId, tag, clock))
  /\ db' = get_tag_id(db, nextId, tag, clock).db
  /\ nextId' = get_tag_id(db, nextId, tag, clock).nid
  /\ last' = IF get_tag_id(db, nextId, tag, clock).ok
             THEN "tag required" ELSE "tag refused"
  /\ UNCHANGED <<clock, tag, slug, uuids, pc, tx, cur>>

\* Slugifying any tag of the alphabet.
InitSlug ==
  /\ db = EmptyDb
  /\ nextId = 0
  /\ clock = 0
  /\ last = "none"
  /\ tag \in Tags
  /\ slug = NoSlug
  /\ uuids = {}
  /\ pc = "idle"
  /\ tx = "none"
  /\ cur = NoInput

NextSlug == Slugify \/ Reslugify \/ GetTagId

SpecSlug == InitSlug /\ [][NextSlug]_vars

\* db::get_uuid at the second the clock shows, with any random bits.
GetUuid ==
  /\ \E rand \in 0..MaxRand :
       uuids' = uuids \cup {[at |-> clock, id |-> new_v7(clock, rand)]}
  /\ uuids' # uuids
  /\ last' = "identified"
  /\ UNCHANGED <<db, nextId, clock, tag, slug, pc, tx, cur>>

\* Identifiers drawn while time passes.
NextUuid == GetUuid \/ Tick

SpecUuid == Init /\ [][NextUuid]_vars

\* main, Commands::Add: the transaction is opened and add_cmd is called.
Begin ==
  /\ pc = "idle"
  /\ \E in \in FlowInputs : AddEnabled(in) /\ cur' = in
  /\ pc' = "add_cmd"
  /\ tx' = "open"
  /\ UNCHANGED <<db, nextId, clock, last, tag, slug, uuids>>

\* add_cmd, lines 382-388: Url::parse and the scheme test.  A refused link
\* returns the Err to main, which drops the transaction; any other link goes
\* on to readability.
Validate ==
  /\ pc = "add_cmd"
  /\ IF url_refused(cur.args)
     THEN /\ Finish(AddResult(cur), DidAdd(cur, AddResult(cur)))
          /\ pc' = "idle"
          /\ tx' = "none"
     ELSE /\ pc' = "readability"
          /\ UNCHANGED <<db, nextId, last, tx>>
  /\ UNCHANGED <<clock, cur, tag, slug, uuids>>

\* add_cmd from line 391 on: readability returns, the handler works on the
\* store, and main commits or drops the transaction.
Fetched ==
  /\ pc = "readability"
  /\ Finish(AddResult(cur), DidAdd(cur, AddResult(cur)))
  /\ clock' = clock + cur.d
  /\ pc' = "idle"
  /\ tx' = "none"
  /\ UNCHANGED <<cur, tag, slug, uuids>>

\* Commands::Remove between two adds.
RemoveIdle == pc = "idle" /\ Remove

\* Commands::Note between two adds.
NoteIdle == pc = "idle" /\ NoteWith(FlowNoteInputs)

\* The add command step by step, with removals and notes between adds.
NextFlow == Begin \/ Validate \/ Fetched \/ RemoveIdle \/ NoteIdle

SpecFlow == Init /\ [][NextFlow]_vars

(* ----------------------------- properties ------------------------------ *)
IsPrefix(s, t) == Len(s) <= Len(t) /\ SubSeq(t, 1, Len(s)) = s

LinkIds(d) == {l.id : l \in d.link}
ContentOf(d, id) == SelectSeq(d.link_content, LAMBDA r : r.link_id = IdBlob(id))
TagRowsOf(d, id) == SelectSeq(d.item_tag, LAMBDA r : r.link_id = id)
EdgesFrom(d, id) == SelectSeq(d.related_link, LAMBDA r : r.primary_link_id = id)
EdgesTo(d, id) == SelectSeq(d.related_link, LAMBDA r : r.related_link_id = id)

\* The links a step promoted, demoted and deleted.
Promoted(d, e) ==
  {l.id : l \in {k \in d.link : ~k.is_primary /\ \E m \in e.link : m.id = k.id /\ m.is_primary}}
Demoted(d, e) ==
  {l.id : l \in {k \in d.link : k.is_primary /\ \E m \in e.link : m.id = k.id /\ ~m.is_primary}}
Deleted(d, e) == LinkIds(d) \ LinkIds(e)

\* The command line gives the add no reason to fail: the page is fetched,
\* every tag has a slug, the engine accepts the edge, identifiers are left.
CleanAdd(in) ==
  /\ in.args.link \in Urls
  /\ in.page # FetchFailed
  /\ ~in.relate_fails
  /\ \A i \in 1..Len(in.args.tag) : slugify(in.args.tag[i]).ok
  /\ AddEnabled(in)

\* C1: no two link rows have the same url, primary or secondary, after any
\* sequence of add, note and remove commands.
C1_UrlUnique ==
  \A l1 \in db.link : \A l2 \in db.link : l1.url = l2.url => l1 = l2

\* C1's case: an add met a row of its url, and several links are stored, one
\* of them secondary.
C1_Witness ==
  /\ last \in {"promoted", "duplicate refused"}
  /\ Cardinality(db.link) >= 2
  /\ \E l \in db.link : ~l.is_primary

\* The row l, secondary before the add, is primary after it, with the title
\* and description of the new input, the time of the update, and one content
\* row, which holds the extracted text.
PromotedRow(l, in, r) ==
  /\ \E m \in r.db.link :
       /\ m.id = l.id
       /\ m.is_primary
       /\ m.title = LinkInsertArgs(in.args, [page |-> in.page, now |-> clock]).title
       /\ m.description =
            LinkInsertArgs(in.args, [page |-> in.page, now |-> clock]).description
       /\ m.modified_at = clock + in.d
  /\ ContentOf(r.db, l.id) =
       <<[link_id |-> IdBlob(l.id), content |-> trim(in.page.text_content)]>>

\* C2: an add of a url whose only row is secondary commits, and leaves that
\* row primary, with the title and description of the new input, with exactly
\* one content row, which holds the extracted text, and with modified_at set
\* to the time of the update.
C2_Promotion ==
  \A in \in AddInputs : \A l \in db.link :
    (CleanAdd(in) /\ l.url = in.args.link /\ ~l.is_primary) =>
      (AddResult(in).ok /\ PromotedRow(l, in, AddResult(in)))

\* C3: a promotion keeps the identifier of every link row, the promoted one
\* included, and every relation edge that existed before it.
C3_PromotionKeepsIdAndEdges ==
  [][last' = "promoted" =>
       /\ Promoted(db, db') # {}
       /\ LinkIds(db) \subseteq LinkIds(db')
       /\ IsPrefix(db.related_link, db'.related_link)]_vars

\* C3's case: a link that an edge from another link ends at was promoted.
C3_Witness ==
  /\ last = "promoted"
  /\ \E l \in db.link :
       /\ l.is_primary
       /\ \E i \in 1..Len(db.related_link) :
            /\ db.related_link[i].related_link_id = l.id
            /\ db.related_link[i].primary_link_id # l.id

\* The link id is secondary in d, with no tag association, no edge it is the
\* source of, and no content row.
Stripped(d, id) ==
  /\ \E m \in d.link : m.id = id /\ ~m.is_primary
  /\ TagRowsOf(d, id) = <<>>
  /\ EdgesFrom(d, id) = <<>>
  /\ ContentOf(d, id) = <<>>

\* C4: a remove of a primary link that some edge ends at commits, and leaves
\* the link secondary, with no tag association, no edge it is the source of,
\* and no content row.
C4_DemotionStrips ==
  \A item \in Urls : \A l \in db.link :
    (l.url = item /\ l.is_primary /\ EdgesTo(db, l.id) # <<>>) =>
      (RemoveResult(item).ok /\ Stripped(RemoveResult(item).db, l.id))

\* C5: a demotion leaves the link row in place with the same id and the same
\* url, keeps every edge that ends at it, and changes no relation and no tag
\* association of another link.
C5_DemotionFrame ==
  [][last' = "demoted" =>
       \A id \in Demoted(db, db') :
         /\ \A l \in db.link : \E m \in db'.link : m.id = l.id /\ m.url = l.url
         /\ EdgesTo(db', id) = EdgesTo(db, id)
         /\ \A o \in LinkIds(db) \ {id} :
              /\ EdgesFrom(db', o) = EdgesFrom(db, o)
              /\ TagRowsOf(db', o) = TagRowsOf(db, o)]_vars

\* C6: a removed primary link is demoted exactly when an edge authored by
\* another link ends at it; otherwise (no edge, or only an edge from itself)
\* it is deleted.
C6_DemoteIffInboundFromOther ==
  [][last' \in {"demoted", "deleted"} =>
       \A id \in Demoted(db, db') \cup Deleted(db, db') :
         (id \in Demoted(db, db')) <=>
           (\E i \in 1..Len(db.related_link) :
              /\ db.related_link[i].related_link_id = id
              /\ db.related_link[i].primary_link_id # id)]_vars

\* C7: a remove of a primary link that no edge ends at deletes the row and
\* leaves no tag association, no content row and no edge it is the source of.
C7_HardDelete ==
  [][\A item \in Urls : \A l \in db.link :
       (l.url = item /\ l.is_primary /\ EdgesTo(db, l.id) = <<>>
        /\ db' = commit(db, RemoveResult(item)) /\ last' = DidRemove(RemoveResult(item)))
       =>
         /\ last' = "deleted"
         /\ l.id \notin LinkIds(db')
         /\ TagRowsOf(db', l.id) = <<>>
         /\ ContentOf(db', l.id) = <<>>
         /\ EdgesFrom(db', l.id) = <<>>]_vars

\* C7's case: a link was deleted, and a tag is left that no item carries: the
\* deleted link carried it.
C7_Witness ==
  /\ last = "deleted"
  /\ db.tag # {}
  /\ db.item_tag = <<>>
  /\ db.note = {}
  /\ \A l \in db.link : l.is_primary

\* C8: every relation edge has a link row at both ends.
C8_NoOrphanEdges ==
  \A i \in 1..Len(db.related_link) :
    /\ db.related_link[i].primary_link_id \in LinkIds(db)
    /\ db.related_link[i].related_link_id \in LinkIds(db)

\* C8's case: a link was removed and an edge is still stored.
C8_Witness ==
  /\ last \in {"deleted", "demoted"}
  /\ db.related_link # <<>>

\* C9: a command that fails leaves the store as it was.
C9_Atomic ==
  [][last' \in {"add failed", "add failed after writes", "duplicate refused",
                "promotion refused", "remove failed", "note failed",
                "note failed after writes"} => db' = db]_vars

\* C9's case: an add failed after it had written rows, and rows are stored.
C9_Witness ==
  /\ last = "add failed after writes"
  /\ db.link # {}

AddOfStoredUrl(l, in, r) ==
  /\ Cardinality({m \in commit(db, r).link : m.url = in.args.link}) <= 1
  /\ l.is_primary => (~r.ok /\ commit(db, r) = db)
  /\ r.ok => (~l.is_primary /\ \E m \in r.db.link : m.id = l.id /\ m.is_primary)

PrimaryInsert(u) ==
  [url |-> u, title |-> "Mine", description |-> "Desc", content |-> "text",
   is_primary |-> TRUE, timestamp |-> clock + 1]
RelatedInsert(u) ==
  [url |-> u, title |-> NULL, description |-> NULL, content |-> NULL,
   is_primary |-> FALSE, timestamp |-> clock + 1]

\* C11: a strict insert_link of a url that has a row returns Err, and leaves
\* the link table, the existing row included, and the content table as they
\* were.
C11_StrictInsertConflict ==
  \A l \in db.link : \A li \in {PrimaryInsert(l.url), RelatedInsert(l.url)} :
    /\ ~insert_link(db, nextId, li, FALSE).ok
    /\ insert_link(db, nextId, li, FALSE).db = db

\* C11's case: add_cmd's strict insert met the row of a primary link, which
\* has its content row.
C11_Witness ==
  /\ last = "duplicate refused"
  /\ \E l \in db.link : l.is_primary /\ ContentOf(db, l.id) # <<>>
  /\ Cardinality(db.link) = 1

\* C12: an insert_link with merge-on-conflict of a url that has a row, as
\* add_cmd makes it for a related link, returns the id of that row and changes
\* no column of it and no content row; no table changes.
C12_MergeInsertFrame ==
  \A l \in db.link :
    /\ insert_link(db, nextId, RelatedInsert(l.url), TRUE).ok
    /\ insert_link(db, nextId, RelatedInsert(l.url), TRUE).ret = l.id
    /\ insert_link(db, nextId, RelatedInsert(l.url), TRUE).db = db

\* C12's case: the second link stored was added with the first one, a primary
\* link with its content, as its related link.
C12_Witness ==
  /\ last = "inserted"
  /\ nextId = 2
  /\ \E l \in db.link : l.id = 1 /\ l.is_primary /\ ContentOf(db, 1) # <<>>
  /\ \E i \in 1..Len(db.related_link) :
       db.related_link[i].primary_link_id = 2 /\ db.related_link[i].related_link_id = 1

\* Names that slugify to the slug of TagJazz: another case, other punctuation.
JazzNames == {TagJazz, TagJazzLower, <<"J", "!">>, <<" ", "j">>}

\* C13: at most one tag row has a given slug, and resolving a name whose slug
\* is stored returns the id of the stored row and inserts no tag row.
C13_TagDedupe ==
  /\ \A t1 \in db.tag : \A t2 \in db.tag : t1.slug = t2.slug => t1 = t2
  /\ \A t \in db.tag : \A name \in JazzNames :
       (slugify(name).ok /\ slugify(name).slug = t.slug) =>
         /\ get_tag_id(db, nextId, name, clock + 1).ok
         /\ get_tag_id(db, nextId, name, clock + 1).ret = t.id
         /\ {u.id : u \in get_tag_id(db, nextId, name, clock + 1).db.tag} =
              {u.id : u \in db.tag}

\* C13's case: a link added with the tag name "J" carries the tag that a note
\* had created under the name "j".
C13_Witness ==
  \E t \in db.tag : \E l \in db.link :
    /\ t.name = TagJazzLower
    /\ l.is_primary
    /\ l.title = NULL
    /\ \E i \in 1..Len(db.item_tag) :
         db.item_tag[i].link_id = l.id /\ db.item_tag[i].tag_id = t.id

\* C14: resolving a name whose slug is stored leaves the tag row with that
\* name as its stored name.
C14_NameRefreshed ==
  \A t \in db.tag : \A name \in JazzNames :
    (slugify(name).ok /\ slugify(name).slug = t.slug) =>
      \E u \in get_tag_id(db, nextId, name, clock + 1).db.tag :
        u.id = t.id /\ u.name = name

\* C15: tag_link and tag_note of a pair that is associated change nothing,
\* and no two association rows hold the same (link, tag) or (note, tag) pair.
C15_TaggingIdempotent ==
  /\ \A i \in 1..Len(db.item_tag) : \A j \in 1..Len(db.item_tag) :
       db.item_tag[i] = db.item_tag[j] => i = j
  /\ \A i \in 1..Len(db.item_tag) :
       /\ db.item_tag[i].link_id # NoId =>
            tag_link(db, db.item_tag[i].link_id, db.item_tag[i].tag_id) = db
       /\ db.item_tag[i].note_id # NoId =>
            tag_note(db, db.item_tag[i].note_id, db.item_tag[i].tag_id) = db

\* C15's case: the note of the first command carries the tag that command
\* created, and the add that stored the link, the third and last identifier,
\* tagged its note, the same note, with the same tag again.
C15_Witness ==
  /\ last = "inserted"
  /\ nextId = 3
  /\ \E n \in db.note : n.id = 1 /\ n.title = UrlA
  /\ \E l \in db.link : l.id = 3 /\ l.url = UrlA
  /\ \E i \in 1..Len(db.item_tag) :
       db.item_tag[i].note_id = 1 /\ db.item_tag[i].tag_id = 2
  /\ \E i \in 1..Len(db.item_tag) :
       db.item_tag[i].link_id = 3 /\ db.item_tag[i].tag_id = 2

\* r is the upsert of the text <<"x">> at the next second under the title of
\* the stored note n: n's id is returned, n has the new content and
\* modified_at and is otherwise as it was, and nothing else has changed.
UpsertedInPlace(n, r) ==
  /\ r.ok
  /\ r.ret = n.id
  /\ r.nid = nextId
  /\ r.db = [db EXCEPT !.note =
               (@ \ {n}) \cup {[n EXCEPT !.content = <<"x">>, !.modified_at = clock + 1]}]

\* r is the upsert of the text <<"x">> under a title that no note has: one row
\* is inserted, with a new id.
UpsertedAsNew(title, r) ==
  /\ r.ok
  /\ r.ret = get_uuid(nextId)
  /\ r.db = [db EXCEPT !.note =
               @ \cup {[id |-> r.ret, content |-> <<"x">>, title |-> title,
                        link_id |-> NoId, created_at |-> clock + 1,
                        modified_at |-> clock + 1]}]

\* C16: upsert_note under a title that has a note overwrites the content and
\* modified_at of that note in place, returns its id and inserts no row;
\* under a new title it inserts a row; no two notes have the same title.
C16_NoteUpsert ==
  /\ \A n1 \in db.note : \A n2 \in db.note : n1.title = n2.title => n1 = n2
  /\ \A n \in db.note :
       UpsertedInPlace(n, upsert_note(db, nextId, <<"x">>, n.title, NoId, clock + 1))
  /\ \A title \in {UrlA, UrlB, "0"} :
       (\A n \in db.note : n.title # title) =>
         UpsertedAsNew(title, upsert_note(db, nextId, <<"x">>, title, NoId, clock + 1))

\* C16's case: the note that an add attached to its link, with the message as
\* its content, was overwritten by a note command with the editor's text.
C16_Witness ==
  /\ last = "noted"
  /\ \E n \in db.note : n.link_id # NoId /\ n.title = UrlA /\ n.content = <<"e">>

\* The link that get_link finds by url after insert_link stored it has the
\* inserted title and description, the url as Url::parse reads it, and the
\* inserted content.
RoundTrip(li, found) ==
  /\ found # NoLink
  /\ found.url = UrlAsStr(li.url)
  /\ found.title = li.title
  /\ found.description = li.description
  /\ found.content = li.content

\* C17: get_link by url, after insert_link of that url with a title, a
\* description and content, returns the link with these and with the stored
\* content.
C17_RoundTrip ==
  \A u \in Urls :
    insert_link(db, nextId, PrimaryInsert(u), FALSE).ok =>
      RoundTrip(PrimaryInsert(u),
                get_link(insert_link(db, nextId, PrimaryInsert(u), FALSE).db,
                         "term", u, "Either"))

\* C18: a list holds primary links only, each a stored primary link, and it
\* is ordered by created_at, newest first.
C18_ListPrimaryNewestFirst ==
  \A r \in list_cmd(db, [tag |-> <<>>]) :
    r.ok =>
      /\ \A i \in 1..Len(r.links) :
           /\ r.links[i].is_primary
           /\ \E l \in db.link : l.id = r.links[i].id /\ l.is_primary
      /\ \A i \in 1..Len(r.links) : \A j \in 1..Len(r.links) :
           i < j => r.links[i].created_at >= r.links[j].created_at

\* C18's case: a list of two links added in different seconds, while a
\* demoted link with a title is stored.
C18_Witness ==
  /\ \E l \in db.link : ~l.is_primary /\ l.title # NULL
  /\ \E r \in list_cmd(db, [tag |-> <<>>]) :
       /\ r.ok
       /\ Len(r.links) = 2
       /\ r.links[1].created_at > r.links[2].created_at

\* The item (a link or a note) carries a tag whose slug is among slugs.
LinkTagged(d, id, slugs) ==
  \E r \in RowsOf(d.item_tag) : \E t \in d.tag :
    r.link_id = id /\ r.tag_id = t.id /\ t.slug \in slugs
NoteTagged(d, id, slugs) ==
  \E r \in RowsOf(d.item_tag) : \E t \in d.tag :
    r.note_id = id /\ r.tag_id = t.id /\ t.slug \in slugs

\* C19: a list with a tag holds exactly the primary links that carry a tag of
\* that slug themselves or whose note carries one.
C19_ListByTag ==
  \A r \in list_cmd(db, [tag |-> <<TagJazz>>]) :
    r.ok =>
      {r.links[i].id : i \in 1..Len(r.links)} =
        {l.id : l \in {k \in db.link :
           /\ k.is_primary
           /\ \/ LinkTagged(db, k.id, {slugify(TagJazz).slug})
              \/ \E n \in db.note :
                   n.link_id = k.id /\ NoteTagged(db, n.id, {slugify(TagJazz).slug})}}

\* C20: delete_link deletes the row of a primary link, and called with the id
\* of a link that is not primary it changes no table.
C20_DeleteLinkPrimaryOnly ==
  \A l \in db.link :
    /\ l.is_primary => l \notin delete_link(db, l.id).link
    /\ ~l.is_primary => delete_link(db, l.id) = db

\* C20's case: a demoted link, with its title, that an edge ends at, next to a
\* secondary link that was never primary.
C20_Witness ==
  /\ \E l \in db.link : ~l.is_primary /\ l.title # NULL /\ EdgesTo(db, l.id) # <<>>
  /\ \E l \in db.link : ~l.is_primary /\ l.title = NULL

\* C21: a secondary link, whether a relation made it or a demotion, has no
\* content row and no tag association.
C21_SecondaryIsBare ==
  \A l \in db.link :
    ~l.is_primary => (ContentOf(db, l.id) = <<>> /\ TagRowsOf(db, l.id) = <<>>)

\* C21's case: the link that was added with a title, a tag and content was
\* demoted, next to a secondary link that a relation made.
C21_Witness ==
  /\ last = "demoted"
  /\ db.tag # {}
  /\ \E l \in db.link : ~l.is_primary /\ l.title = "Mine"

\* C26 as the specification states it: related_links of a link returns, for
\* every edge that starts at the link, the url of the edge's target and the
\* edge's relationship.
C26_RelatedLinksShowTargets ==
  \A l \in db.link :
    related_links(db, l.id) =
      [i \in 1..Len(EdgesFrom(db, l.id)) |->
         <<(CHOOSE t \in db.link : t.id = EdgesFrom(db, l.id)[i].related_link_id).url,
           EdgesFrom(db, l.id)[i].relationship>>]

\* C29: a primary link has exactly one content row, and no link has more
\* than one.
C29_OneContentRow ==
  \A l \in db.link :
    /\ Len(ContentOf(db, l.id)) <= 1
    /\ l.is_primary => Len(ContentOf(db, l.id)) = 1

\* C29's case: the first link, which was added as primary and later demoted,
\* has just been promoted again, the only edge being the one that points at it.
C29_Witness ==
  /\ last = "promoted"
  /\ \E l \in db.link : l.id = 1 /\ l.is_primary
  /\ Len(db.related_link) = 1
  /\ db.related_link[1].primary_link_id = 2
  /\ db.related_link[1].related_link_id = 1

C22_SlugifyIdempotent == [][last' = "reslugified" => slug' = slug]_vars

\* C22's case: a slug with a hyphen or a namespace separator in it went
\* through slugify again.
C22_Witness ==
  /\ last = "reslugified"
  /\ slug.ok
  /\ slug.slug \in {<<"a", "-", "j">>, <<"a", ":", "j">>}

\* The slug between two namespace separators.
Fenced(s) == <<":">> \o s \o <<":">>

\* C23: a slug that slugify returned has no empty segment between colons, no
\* segment that begins or ends with a hyphen, and no two adjacent hyphens.
C23_SlugWellFormed ==
  slug.ok =>
    \A i \in 1..(Len(Fenced(slug.slug)) - 1) :
      <<Fenced(slug.slug)[i], Fenced(slug.slug)[i + 1]>> \notin
        {<<":", ":">>, <<":", "-">>, <<"-", ":">>, <<"-", "-">>}

\* C23's case: a tag with two separators in a row was slugified.
C23_Witness ==
  /\ last = "slugified"
  /\ tag = <<"a", "-", " ", "J">>
  /\ slug = [ok |-> TRUE, slug |-> <<"a", "-", "j">>]

\* The tag has a segment between colons without an alphanumeric character:
\* the empty tag, a tag of spaces or punctuation, a leading, trailing or
\* doubled colon.
NoAlnumSegment(t) ==
  \E i \in 1..Len(Fenced(t)) : \E j \in (i + 1)..Len(Fenced(t)) :
    /\ Fenced(t)[i] = ":"
    /\ Fenced(t)[j] = ":"
    /\ \A k \in (i + 1)..(j - 1) : ~IsAlnum(Fenced(t)[k])

\* C24: slugify returns an Err for a tag with a segment that has no
\* alphanumeric character, and get_tag_id on such a tag fails without a
\* require_tag: the tag table is as it was.
C24_BadTagRefused ==
  [][NoAlnumSegment(tag) =>
       /\ last' = "slugified" => ~slug'.ok
       /\ last' \in {"tag required", "tag refused"} =>
            (last' = "tag refused" /\ db' = db /\ nextId' = nextId)]_vars

\* C24's case: a tag whose second segment is a space and a question mark was
\* slugified and then given to get_tag_id.
C24_Witness ==
  /\ last = "tag refused"
  /\ tag = <<"a", ":", " ", "?">>
  /\ slug = [ok |-> FALSE, slug |-> <<>>]

\* C25: of two identifiers, the one get_uuid made in a strictly later second
\* compares greater.
C25_TimeOrdered ==
  \A a \in uuids : \A b \in uuids : a.at < b.at => UuidLess(a.id, b.id)

\* C25's case: the later identifier has the smaller random bits, next to two
\* identifiers of one second.
C25_Witness ==
  /\ \E a \in uuids : \E b \in uuids : a.at < b.at /\ a.id[2] > b.id[2]
  /\ \E a \in uuids : \E b \in uuids : a.at = b.at /\ a.id # b.id

\* C27 as the specification states it: no transaction is open while the
\* content fetch of an add is in flight.
C27_FetchOutsideTransaction == pc = "readability" => tx = "none"

\* C28: an add whose link does not parse or is not http(s) fails before any
\* fetch and before any write: its next step is the return to main with the
\* store as it was.
C28_BadLinkFailsFirst ==
  [][(pc = "add_cmd" /\ cur.args.link \in BadLinks) =>
       /\ pc' = "idle"
       /\ last' = "add failed"
       /\ db' = db
       /\ nextId' = nextId]_vars

\* C28's case: a link that does not parse was refused on a store that holds
\* links.
C28_Witness ==
  /\ pc = "idle"
  /\ last = "add failed"
  /\ cur.args.link = "not a url"
  /\ db.link # {}

\* C32 as the specification states it: a list of all links succeeds in every
\* store, also when a primary link has no title or no description.
C32_ListSucceeds == \A r \in list_cmd(db, [tag |-> <<>>]) : r.ok

\* The note k is the note n after an upsert of content at the second at:
\* the id, the link and the creation time of n, the new content.
SameNoteWith(k, n, content) ==
  /\ k.id = n.id
  /\ k.title = n.title
  /\ k.link_id = n.link_id
  /\ k.created_at = n.created_at
  /\ k.content = content

\* C31: upsert_note under a title that has a note keeps the note's id,
\* link_id and created_at whatever link_id is passed; an add with a message,
\* for a link whose text is the title of a note, overwrites the content of
\* that note and leaves it attached to what it was attached to, a standalone
\* note to nothing.
C31_UpsertKeepsAttachment ==
  [][/\ \A n \in db.note : \A lid \in {NoId} \cup LinkIds(db) :
          \E k \in upsert_note(db, nextId, <<"y">>, n.title, lid, clock + 1).db.note :
            SameNoteWith(k, n, <<"y">>)
     /\ (pc = "readability" /\ cur.args.message # NULL
           /\ last' \in {"inserted", "promoted"}) =>
          \A n \in db.note :
            n.title = cur.args.link =>
              \E k \in db'.note : SameNoteWith(k, n, <<cur.args.message>>)]_vars

\* C31's case: a standalone note titled with the text of a link has the
\* message of the add that has just inserted the link, and is still
\* standalone.
C31_Witness ==
  /\ pc = "idle"
  /\ last = "inserted"
  /\ \E l \in db.link : l.url = UrlA /\ l.is_primary
  /\ \E n \in db.note : n.title = UrlA /\ n.link_id = NoId /\ n.content = <<"x">>

====
